---------------------------- MODULE Spec2Model ----------------------------
(***************************************************************************)
(* bpf_dns.py: a compiler from wildcard DNS domain patterns to a classic   *)
(* BPF filter listing, together with the filter machine that runs the      *)
(* listing on a packet.                                                    *)
(*                                                                         *)
(* Strings are sequences of one-character strings; bytes are naturals in   *)
(* 0..255; a 32-bit machine word is a tuple of four bytes, most            *)
(* significant first.                                                      *)
(***************************************************************************)
EXTENDS Naturals, Sequences, FiniteSets, TLC

VARIABLES args, ignorecase, negate, ipversion, phase, list_of_rules,
          listing, query, packet, vm

vars == <<args, ignorecase, negate, ipversion, phase, list_of_rules,
          listing, query, packet, vm>>

(***************************************************************************)
(* Bounds of the model.                                                    *)
(***************************************************************************)
\* longest domain string enumerated by the compiler-only specification
MaxLen == 5
\* longest query section enumerated byte by byte
MaxPkt == 4

(***************************************************************************)
(* Characters and bytes.                                                   *)
(***************************************************************************)
\* ord(): the byte of a character (ASCII)
Ord ==
  [c \in {"a", "b", "c", "e", "f", "g", "h", "i", "l", "m", "n", "o", "p",
          "r", "t", "w", "x", "A", "E", "T", "X", "-", ".", "*", "?", " "} |->
     CASE c = "a" -> 97  [] c = "b" -> 98  [] c = "c" -> 99  [] c = "e" -> 101
       [] c = "f" -> 102 [] c = "g" -> 103 [] c = "h" -> 104 [] c = "i" -> 105
       [] c = "l" -> 108 [] c = "m" -> 109 [] c = "n" -> 110 [] c = "o" -> 111
       [] c = "p" -> 112 [] c = "r" -> 114 [] c = "t" -> 116 [] c = "w" -> 119
       [] c = "x" -> 120 [] c = "A" -> 65  [] c = "E" -> 69  [] c = "T" -> 84
       [] c = "X" -> 88  [] c = "-" -> 45  [] c = "." -> 46  [] c = "*" -> 42
       [] c = "?" -> 63  [] c = " " -> 32]

\* str.strip() without arguments removes whitespace
Whitespace == {" "}

RECURSIVE BitOr(_, _)
\* a | b on naturals
BitOr(a, b) ==
  IF a = 0 THEN b
  ELSE IF b = 0 THEN a
  ELSE (IF a % 2 = 1 \/ b % 2 = 1 THEN 1 ELSE 0) + 2 * BitOr(a \div 2, b \div 2)

RECURSIVE BitAnd(_, _)
\* a & b on naturals
BitAnd(a, b) ==
  IF a = 0 \/ b = 0 THEN 0
  ELSE (IF a % 2 = 1 /\ b % 2 = 1 THEN 1 ELSE 0) + 2 * BitAnd(a \div 2, b \div 2)

\* a word as a number (used only on words below 2^31)
NumOf(w) == ((w[1] * 256 + w[2]) * 256 + w[3]) * 256 + w[4]

\* a number as a word
WordOf(n) ==
  <<(n \div 16777216) % 256, (n \div 65536) % 256, (n \div 256) % 256, n % 256>>

\* w1 | w2 on words
WordOr(w1, w2) == [i \in 1..4 |-> BitOr(w1[i], w2[i])]

ZeroWord == <<0, 0, 0, 0>>

(***************************************************************************)
(* Tokenizer (main, the loop over args).                                   *)
(***************************************************************************)
RECURSIVE LStrip(_, _)
LStrip(s, cs) ==
  IF s # <<>> /\ Head(s) \in cs THEN LStrip(Tail(s), cs) ELSE s

RECURSIVE RStrip(_, _)
RStrip(s, cs) ==
  IF s # <<>> /\ s[Len(s)] \in cs THEN RStrip(SubSeq(s, 1, Len(s) - 1), cs) ELSE s

\* str.strip(chars): drop leading and trailing characters of the set
Strip(s, cs) == RStrip(LStrip(s, cs), cs)

\* domain.strip(".").strip() followed by domain += '.'
Normalize(domain) == Strip(Strip(domain, {"."}), Whitespace) \o <<".">>

RECURSIVE SplitFrom(_, _, _)
SplitFrom(s, i, cur) ==
  IF i > Len(s) THEN <<cur>>
  ELSE IF s[i] = "." THEN <<cur>> \o SplitFrom(s, i + 1, <<>>)
  ELSE SplitFrom(s, i + 1, Append(cur, s[i]))

\* str.split("."): the parts between dots, empty parts kept
Split(s) == SplitFrom(s, 1, <<>>)

\* Encode without the length byte
EncodeNoLength(part) == [i \in 1..Len(part) |-> [is_char |-> TRUE, b |-> Ord[part[i]]]]

\* [(False, chr(len(part)))] + [(True, c) for c in part]
Encode(part) ==
  <<[is_char |-> FALSE, b |-> Len(part)]>>
    \o [i \in 1..Len(part) |-> [is_char |-> TRUE, b |-> Ord[part[i]]]]

\* one entry of rule: (False, '*') for a sole star, (True, encoded bytes) otherwise
RuleEntry(part) ==
  IF part = <<"*">> THEN [mergeable |-> FALSE, star |-> TRUE, run |-> <<>>]
  ELSE [mergeable |-> TRUE, star |-> FALSE, run |-> Encode(part)]

\* the entries of a sequence of parts
RuleOf(parts) == [i \in 1..Len(parts) |-> RuleEntry(parts[i])]

\* rule: the entries of the parts of the normalized domain
Rule(domain) == RuleOf(Split(Normalize(domain)))

RECURSIVE MergeFrom(_, _, _, _)
MergeFrom(rule, i, open, acc) ==
  IF i > Len(rule) THEN (IF open THEN <<[star |-> FALSE, run |-> acc]>> ELSE <<>>)
  ELSE IF rule[i].mergeable
       THEN MergeFrom(rule, i + 1, TRUE, acc \o rule[i].run)
       ELSE (IF open THEN <<[star |-> FALSE, run |-> acc]>> ELSE <<>>)
              \o <<[star |-> TRUE, run |-> <<>>]>>
              \o MergeFrom(rule, i + 1, FALSE, <<>>)

\* utils.merge: consecutive mergeable entries concatenated, others standalone
Merge(rule) == MergeFrom(rule, 1, FALSE, <<>>)

\* list_of_rules: one merged rule per argument
Rules(as) == [i \in 1..Len(as) |-> Merge(Rule(as[i]))]

(***************************************************************************)
(* Emitters (match_exact, match_star) and the layout of the listing.       *)
(* A line of the listing is a record: op, a numeric operand k, a word      *)
(* operand v, a load width w and a label number lb.                        *)
(***************************************************************************)
Line(op, k, v, w, lb) == [op |-> op, k |-> k, v |-> v, w |-> w, lb |-> lb]

Comment == Line("comment", 0, ZeroWord, 0, 0)

\* l3_off = 14
L3Off == 14

\* struct.unpack('!I' / '!H' / '!B'): the bytes of a chunk, big-endian, as a word
Unpack(bs) ==
  [i \in 1..4 |-> IF i <= 4 - Len(bs) THEN 0 ELSE bs[i - (4 - Len(bs))]]

\* MaskByte testing ignore-case before "?"
MaskByteCaseFirst(e, ic) ==
  IF e.is_char /\ ic THEN 32
  ELSE IF e.is_char /\ e.b = Ord["?"] THEN 255
  ELSE 0

\* MaskByte folding the case of letters only
MaskByteAlpha(e, ic) ==
  IF e.is_char /\ e.b = Ord["?"] THEN 255
  ELSE IF e.is_char /\ ic /\ e.b \in (65..90) \cup (97..122) THEN 32
  ELSE 0

\* the mask byte of one encoded byte
MaskByte(e, ic) ==
  IF e.is_char /\ e.b = Ord["?"] THEN 255
  ELSE IF e.is_char /\ ic THEN 32
  ELSE 0

\* mask: one mask byte per byte of the run
Mask(run, ic) == [i \in 1..Len(run) |-> MaskByte(run[i], ic)]

\* s = ''.join(b for (is_char, b) in rule)
Bytes(run) == [i \in 1..Len(run) |-> run[i].b]

\* ChunkWidth without the 2-byte case
ChunkWidthNoHalf(n) == IF n >= 4 THEN 4 ELSE 1

\* the width of the next chunk of a string of n remaining bytes
ChunkWidth(n) == IF n >= 4 THEN 4 ELSE IF n >= 2 THEN 2 ELSE 1

\* the compared value of a chunk: m, or m |= mm when the mask is non-zero
ChunkValue(m, mm) == IF mm # ZeroWord THEN WordOr(m, mm) ELSE m

RECURSIVE ChunkCode(_, _, _, _)
\* the while loop of match_exact: one load, an optional or, one jneq per chunk
ChunkCode(s, mask, off, label) ==
  IF s = <<>> THEN <<>>
  ELSE LET w  == ChunkWidth(Len(s))
           m  == Unpack(SubSeq(s, 1, w))
           mm == Unpack(SubSeq(mask, 1, w))
       IN  <<Line("ld", off, ZeroWord, w, 0)>>
             \o (IF mm # ZeroWord THEN <<Line("or", 0, mm, 0, 0)>> ELSE <<>>)
             \o <<Line("jneq", 0, ChunkValue(m, mm), 0, label)>>
             \o ChunkCode(SubSeq(s, w + 1, Len(s)), SubSeq(mask, w + 1, Len(mask)),
                          off + w, label)

\* the cursor advance after the chunks of a run: none for the last step
Advance(n, last) ==
  IF ~last
  THEN <<Line("txa", 0, ZeroWord, 0, 0), Line("add", n, ZeroWord, 0, 0),
         Line("tax", 0, ZeroWord, 0, 0)>>
  ELSE <<>>

\* match_exact(rule, label, last)
MatchExact(run, label, last, ic) ==
  <<Comment>> \o ChunkCode(Bytes(run), Mask(run, ic), 0, label)
              \o Advance(Len(run), last)

\* match_star()
MatchStar ==
  <<Comment, Line("ld", 0, ZeroWord, 1, 0), Line("addx", 0, ZeroWord, 0, 0),
    Line("add", 1, ZeroWord, 0, 0), Line("tax", 0, ZeroWord, 0, 0)>>

\* FailLabel naming the block's own label
FailLabelSelf(i) == i

\* the label a failed comparison of block i jumps to
FailLabel(i) == i + 1

RECURSIVE StepsCode(_, _, _, _)
\* the loop over the steps of one merged rule
StepsCode(rules, j, i, ic) ==
  IF j > Len(rules) THEN <<>>
  ELSE (IF ~rules[j].star
        THEN MatchExact(rules[j].run, FailLabel(i), j = Len(rules), ic)
        ELSE MatchStar)
       \o StepsCode(rules, j + 1, i, ic)

\* StoreActive only from three patterns on
StoreActiveMany(n) == n > 2

\* whether the start offset is stored to M[0]
StoreActive(n) == n > 1

\* whether block i reloads the cursor from M[0]
ReloadActive(i) == i # 0

\* the verdict of the accept return
AcceptRet(neg) == IF ~neg THEN 1 ELSE 0

\* the verdict of the final reject return
RejectRet(neg) == IF ~neg THEN 0 ELSE 1

\* the instructions that compute the offset of the first query byte
Header(ipv) ==
  (IF ipv = 4
   THEN <<Line("ldxmsh", L3Off, ZeroWord, 0, 0), Comment,
          Line("ldi", L3Off + 8 + 12, ZeroWord, 0, 0),
          Line("addx", 0, ZeroWord, 0, 0)>>
   ELSE <<Line("ldi", L3Off + 40 + 8 + 12, ZeroWord, 0, 0)>>)
  \o <<Line("tax", 0, ZeroWord, 0, 0), Comment>>

\* the block of pattern i (0-based): label, reload, steps, accept return
Block(rules, i, ic, neg) ==
  <<Line("label", 0, ZeroWord, 0, i)>>
    \o <<IF ReloadActive(i) THEN Line("ldxm", 0, ZeroWord, 0, 0)
         ELSE Line("comment_ldxm", 0, ZeroWord, 0, 0)>>
    \o StepsCode(rules, 1, i, ic)
    \o <<Line("ret", AcceptRet(neg), ZeroWord, 0, 0)>>

RECURSIVE Blocks(_, _, _, _)
Blocks(lor, i, ic, neg) ==
  IF i >= Len(lor) THEN <<>>
  ELSE Block(lor[i + 1], i, ic, neg) \o Blocks(lor, i + 1, ic, neg)

\* everything main prints: header, store, one block per pattern, reject block
Listing(lor, ic, neg, ipv) ==
  Header(ipv)
    \o <<IF StoreActive(Len(lor)) THEN Line("st", 0, ZeroWord, 0, 0)
         ELSE Line("comment_st", 0, ZeroWord, 0, 0)>>
    \o Blocks(lor, 0, ic, neg)
    \o <<Line("label", 0, ZeroWord, 0, Len(lor)),
         Line("ret", RejectRet(neg), ZeroWord, 0, 0)>>

(***************************************************************************)
(* The filter machine: registers A (a word), X and the scratch slot M[0],  *)
(* run over the listing on one packet.  Comment and label lines hold no    *)
(* instruction.  A load outside the packet ends the filter with verdict 0. *)
(***************************************************************************)
IsIns(l) == l.op \notin {"comment", "comment_st", "comment_ldxm", "label"}

\* the first instruction after line i
NextIns(prog, i) ==
  CHOOSE j \in (i + 1)..Len(prog) :
    IsIns(prog[j]) /\ \A h \in (i + 1)..(j - 1) : ~IsIns(prog[h])

\* the line declaring label lb
LabelPos(prog, lb) ==
  CHOOSE i \in 1..Len(prog) : prog[i].op = "label" /\ prog[i].lb = lb

\* the w bytes at offset off of the packet as a word, big-endian
LoadWord(pkt, off, w) == Unpack(SubSeq(pkt, off + 1, off + w))

VMStart(prog) ==
  [pc |-> NextIns(prog, 0), A |-> ZeroWord, X |-> 0, M |-> ZeroWord,
   status |-> "run", verdict |-> 0]

Fault(s) == [s EXCEPT !.status = "fault", !.verdict = 0]

\* one instruction of the filter
VMStep(prog, pkt, s) ==
  LET l   == prog[s.pc]
      nxt == [s EXCEPT !.pc = NextIns(prog, s.pc)]
  IN  CASE l.op = "ldxmsh" ->
             IF l.k + 1 <= Len(pkt)
             THEN [nxt EXCEPT !.X = 4 * BitAnd(pkt[l.k + 1], 15)]
             ELSE Fault(s)
        [] l.op = "ldi"  -> [nxt EXCEPT !.A = WordOf(l.k)]
        [] l.op = "ld"   ->
             IF s.X + l.k + l.w <= Len(pkt)
             THEN [nxt EXCEPT !.A = LoadWord(pkt, s.X + l.k, l.w)]
             ELSE Fault(s)
        [] l.op = "or"   -> [nxt EXCEPT !.A = WordOr(s.A, l.v)]
        [] l.op = "jneq" ->
             IF s.A # l.v
             THEN [s EXCEPT !.pc = NextIns(prog, LabelPos(prog, l.lb))]
             ELSE nxt
        [] l.op = "txa"  -> [nxt EXCEPT !.A = WordOf(s.X)]
        [] l.op = "tax"  -> [nxt EXCEPT !.X = NumOf(s.A)]
        [] l.op = "add"  -> [nxt EXCEPT !.A = WordOf(NumOf(s.A) + l.k)]
        [] l.op = "addx" -> [nxt EXCEPT !.A = WordOf(NumOf(s.A) + s.X)]
        [] l.op = "st"   -> [nxt EXCEPT !.M = s.A]
        [] l.op = "ldxm" -> [nxt EXCEPT !.X = NumOf(s.M)]
        [] l.op = "ret"  -> [s EXCEPT !.status = "ret", !.verdict = l.k]

RECURSIVE RunFrom(_, _, _)
\* the machine run to its end
RunFrom(prog, pkt, s) ==
  IF s.status # "run" THEN s ELSE RunFrom(prog, pkt, VMStep(prog, pkt, s))

\* the verdict of a listing on a packet
Result(prog, pkt) == RunFrom(prog, pkt, VMStart(prog)).verdict

Zeros(n) == [i \in 1..n |-> 0]

\* a frame: link header, IPv4 header of ihl words or IPv6 header, UDP header,
\* DNS header, then the query section q
Frame(ipv, ihl, q) ==
  Zeros(L3Off)
    \o (IF ipv = 4 THEN <<64 + ihl>> \o Zeros(4 * ihl - 1)
        ELSE <<96>> \o Zeros(39))
    \o Zeros(8) \o Zeros(12) \o q

(***************************************************************************)
(* Inputs: the command lines and the packets the model enumerates.         *)
(***************************************************************************)
\* the characters of the domain strings enumerated exhaustively
Chars == {"a", ".", " ", "*", "?"}

\* every string over Chars of at most MaxLen characters
Strings == UNION {[1..k -> Chars] : k \in 0..MaxLen}

\* short domains: a literal, a wildcard before and after a literal, a
\* single-character wildcard, a non-alphabetic character, two labels
ShortDomains ==
  {<<"a">>, <<"*", ".", "a">>, <<"a", ".", "*">>, <<"?">>, <<"-">>,
   <<"a", ".", "a">>}

\* the domains of the usage text
ExampleCom == <<"e", "x", "a", "m", "p", "l", "e", ".", "c", "o", "m">>

StarWwwFintMe == <<"*", ".", "w", "w", "w", ".", "f", "i", "n", "t", ".", "m", "e">>

FinQMe == <<"f", "i", "n", "?", ".", "m", "e">>

\* the argument lists of the full specification
PatternLists ==
  {<<d>> : d \in ShortDomains \cup {ExampleCom, StarWwwFintMe, FinQMe}}
    \cup {<<<<"a", ".", "a">>, <<"a">>>>, <<<<"*", ".", "a">>, <<"a">>>>,
          <<<<"a">>, <<"?">>>>, <<ExampleCom, StarWwwFintMe>>,
          <<<<"a", ".", "*">>, <<"-">>, <<"a">>>>}

\* the bytes of the query sections enumerated exhaustively
PktBytes == {0, 1, 97, 65}

SmallQueries == UNION {[1..k -> PktBytes] : k \in 0..MaxPkt}

RECURSIVE WireFrom(_, _)
WireFrom(labels, i) ==
  IF i > Len(labels) THEN <<0>>
  ELSE <<Len(labels[i])>> \o [k \in 1..Len(labels[i]) |-> Ord[labels[i][k]]]
         \o WireFrom(labels, i + 1)

\* the DNS wire form of a dotted name: length-prefixed labels, then the root
WireOf(name) == WireFrom(Split(name), 1)

\* the query names of the usage text, and some more
Names ==
  {<<"f", "i", "n", "t", ".", "m", "e">>,
   <<"f", "i", "n", "T", ".", "m", "e">>,
   <<"f", "i", "n", "X", ".", "m", "e">>,
   <<"f", "i", "n", "X", "X", ".", "m", "e">>,
   <<"f", "i", "n", ".", "m", "e">>,
   <<"w", "w", "w", ".", "f", "i", "n", "X", ".", "m", "e">>,
   ExampleCom,
   <<"E", "x", "a", "m", "p", "l", "E", ".", "c", "o", "m">>,
   <<"o", "t", "h", "e", "r", ".", "o", "r", "g">>,
   <<"w", "w", "w", ".", "f", "i", "n", "t", ".", "m", "e">>,
   <<"b", "l", "a", "h", ".", "w", "w", "w", ".", "f", "i", "n", "t", ".", "m", "e">>,
   <<"b", "l", "a", "h", ".", "b", "l", "a", "h", ".", "w", "w", "w", ".",
     "f", "i", "n", "t", ".", "m", "e">>}

\* what follows the name: QTYPE A and QCLASS IN, or the end of the packet
Tails == {<<0, 1, 0, 1>>, <<>>}

NamedQueries == {WireOf(n) \o t : n \in Names, t \in Tails}

Queries == SmallQueries \cup NamedQueries

\* IPv4 header lengths in 32-bit words
Ihls == {5, 6}

(***************************************************************************)
(* The state machine.                                                      *)
(***************************************************************************)
VMIdle ==
  [pc |-> 0, A |-> ZeroWord, X |-> 0, M |-> ZeroWord, status |-> "idle",
   verdict |-> 0]

InitWith(lists, negs, ipvs) ==
  /\ args \in lists
  /\ ignorecase \in BOOLEAN
  /\ negate \in negs
  /\ ipversion \in ipvs
  /\ phase = "args"
  /\ list_of_rules = <<>>
  /\ listing = <<>>
  /\ query = <<>>
  /\ packet = <<>>
  /\ vm = VMIdle

Init == InitWith(PatternLists, BOOLEAN, {4, 6})

InitTok == InitWith({<<s>> : s \in Strings}, {FALSE}, {4})

\* main: the loop over args building list_of_rules
Tokenize ==
  /\ phase = "args"
  /\ list_of_rules' = Rules(args)
  /\ phase' = "rules"
  /\ UNCHANGED <<args, ignorecase, negate, ipversion, listing, query, packet, vm>>

\* main: printing the listing
Emit ==
  /\ phase = "rules"
  /\ listing' = Listing(list_of_rules, ignorecase, negate, ipversion)
  /\ phase' = "listing"
  /\ UNCHANGED <<args, ignorecase, negate, ipversion, list_of_rules, query,
                 packet, vm>>

\* the filter is started on a packet
Receive ==
  /\ phase = "listing"
  /\ \E q \in Queries, ihl \in Ihls :
       /\ query' = q
       /\ packet' = Frame(ipversion, ihl, q)
  /\ vm' = VMStart(listing)
  /\ phase' = "run"
  /\ UNCHANGED <<args, ignorecase, negate, ipversion, list_of_rules, listing>>

\* the filter executes one instruction
Step ==
  /\ phase = "run"
  /\ vm.status = "run"
  /\ vm' = VMStep(listing, packet, vm)
  /\ UNCHANGED <<args, ignorecase, negate, ipversion, phase, list_of_rules,
                 listing, query, packet>>

Next == Tokenize \/ Emit \/ Receive \/ Step

NextTok == Tokenize \/ Emit

Spec == Init /\ [][Next]_vars

SpecTok == InitTok /\ [][NextTok]_vars

(***************************************************************************)
(* Reading a listing back: blocks, the code of each step, the chunks of a  *)
(* comparison.  Used by the properties below.                              *)
(***************************************************************************)
NPatterns == Len(args)

\* the listing has just been printed (no later step changes it)
Compiled == phase = "listing"

Running == phase = "run" /\ vm.status = "run"

Done == phase = "run" /\ vm.status # "run"

\* the lines of block i after its label and reload line, up to its return
StepLines(prog, i) ==
  SubSeq(prog, LabelPos(prog, i) + 2, LabelPos(prog, i + 1) - 2)

RECURSIVE SplitAtComments(_, _, _, _)
\* each step's code starts with its "; Match" comment line
SplitAtComments(lines, i, started, cur) ==
  IF i > Len(lines) THEN (IF started THEN <<cur>> ELSE <<>>)
  ELSE IF lines[i].op = "comment"
  THEN (IF started THEN <<cur>> ELSE <<>>) \o SplitAtComments(lines, i + 1, TRUE, <<>>)
  ELSE SplitAtComments(lines, i + 1, started, Append(cur, lines[i]))

\* the code of the steps of block i, one sequence of lines per step
Segments(prog, i) == SplitAtComments(StepLines(prog, i), 1, FALSE, <<>>)

OpAt(seg, p) == IF p <= Len(seg) THEN seg[p].op ELSE "none"

RECURSIVE Chunks(_, _)
\* the chunks at the head of a step's code: load, optional or, jneq
Chunks(seg, p) ==
  IF OpAt(seg, p) = "ld" /\ OpAt(seg, p + 1) = "or" /\ OpAt(seg, p + 2) = "jneq"
  THEN <<[w |-> seg[p].w, k |-> seg[p].k, mm |-> seg[p + 1].v,
          v |-> seg[p + 2].v, lb |-> seg[p + 2].lb, lines |-> 3]>>
         \o Chunks(seg, p + 3)
  ELSE IF OpAt(seg, p) = "ld" /\ OpAt(seg, p + 1) = "jneq"
  THEN <<[w |-> seg[p].w, k |-> seg[p].k, mm |-> ZeroWord,
          v |-> seg[p + 1].v, lb |-> seg[p + 1].lb, lines |-> 2]>>
         \o Chunks(seg, p + 2)
  ELSE <<>>

RECURSIVE SumLines(_)
SumLines(cs) == IF cs = <<>> THEN 0 ELSE Head(cs).lines + SumLines(Tail(cs))

\* what follows the chunks in a step's code
Trailer(seg) == SubSeq(seg, SumLines(Chunks(seg, 1)) + 1, Len(seg))

\* the low w bytes of a word
LowBytes(word, w) == SubSeq(word, 5 - w, 4)

RECURSIVE SegMaskFrom(_)
SegMaskFrom(cs) ==
  IF cs = <<>> THEN <<>> ELSE LowBytes(Head(cs).mm, Head(cs).w) \o SegMaskFrom(Tail(cs))

\* the mask bytes a step's code applies, in packet order
SegMask(seg) == SegMaskFrom(Chunks(seg, 1))

RECURSIVE SegValueFrom(_)
SegValueFrom(cs) ==
  IF cs = <<>> THEN <<>> ELSE LowBytes(Head(cs).v, Head(cs).w) \o SegValueFrom(Tail(cs))

\* the bytes a step's code compares against, in packet order
SegValue(seg) == SegValueFrom(Chunks(seg, 1))

\* the pairs (pattern, step) of the compiled rules that are comparison runs
RunSteps ==
  {ij \in (1..Len(list_of_rules)) \X (1..8) :
     /\ ij[2] <= Len(list_of_rules[ij[1]])
     /\ ~list_of_rules[ij[1]][ij[2]].star}

\* the run of a pair and the code emitted for it
RunOf(ij) == list_of_rules[ij[1]][ij[2]].run

SegOf(ij) ==
  LET segs == Segments(listing, ij[1] - 1)
  IN  IF ij[2] <= Len(segs) THEN segs[ij[2]] ELSE <<>>

IsLastStep(ij) == ij[2] = Len(list_of_rules[ij[1]])

(***************************************************************************)
(* The reference meaning of a pattern on a query section: the query name   *)
(* is read label by label up to the root byte, and matches a pattern when  *)
(* both have the same number of labels, a star label standing for any one  *)
(* label and a literal label for itself, "?" standing for any one byte.    *)
(***************************************************************************)
RECURSIVE NameFrom(_, _)
NameFrom(q, p) ==
  IF p > Len(q) THEN [ok |-> FALSE, labels |-> <<>>]
  ELSE IF q[p] = 0 THEN [ok |-> TRUE, labels |-> <<>>]
  ELSE IF q[p] >= 64 \/ p + q[p] > Len(q) THEN [ok |-> FALSE, labels |-> <<>>]
  ELSE LET r == NameFrom(q, p + 1 + q[p])
       IN  [ok |-> r.ok, labels |-> <<SubSeq(q, p + 1, p + q[p])>> \o r.labels]

PatternLabels(domain) == Split(Strip(domain, {"."}))

CharMatches(c, b, ic) ==
  \/ c = "?"
  \/ Ord[c] = b
  \/ ic /\ BitOr(Ord[c], 32) = BitOr(b, 32)

LabelMatches(pl, nl, ic) ==
  \/ pl = <<"*">>
  \/ /\ Len(pl) = Len(nl)
     /\ \A k \in 1..Len(pl) : CharMatches(pl[k], nl[k], ic)

NameMatches(domain, q, ic) ==
  LET n  == NameFrom(q, 1)
      pl == PatternLabels(domain)
  IN  /\ n.ok
      /\ Len(n.labels) = Len(pl)
      /\ \A i \in 1..Len(pl) : LabelMatches(pl[i], n.labels[i], ic)

HasStar(domain) == \E i \in 1..Len(PatternLabels(domain)) : PatternLabels(domain)[i] = <<"*">>

\* the offset of the first byte of the query section in the packet
QueryOff == Len(packet) - Len(query)

(***************************************************************************)
(* C1.  With negate off the filter returns 1 exactly when the query name   *)
(* at the start-of-query offset matches at least one of the patterns, and  *)
(* 0 otherwise.  Stated for the runs that end in a return instruction.      *)
(***************************************************************************)
CEX_C1 ==
  (Done /\ ~negate /\ vm.status = "ret") =>
    (vm.verdict = 1 <=>
       \E i \in 1..NPatterns : NameMatches(args[i], query, ignorecase))

(***************************************************************************)
(* C2.  A pattern with star labels is accepted only for a query name with  *)
(* exactly as many labels as the pattern, one label per star and the       *)
(* pattern's label at each literal position.                               *)
(***************************************************************************)
CEX_C2 ==
  (Done /\ ~negate /\ NPatterns = 1 /\ HasStar(args[1]) /\ vm.verdict = 1) =>
    NameMatches(args[1], query, ignorecase)

(***************************************************************************)
(* C3.  The mask byte at every "?" of a literal label is 0xff whether or   *)
(* not ignore-case is set and the mask of every length byte is 0x00; a     *)
(* single pattern without star labels is accepted exactly for the query    *)
(* names with the same labels, each "?" standing for one arbitrary byte;   *)
(* fin?.me accepts fint.me, finT.me, finX.me and rejects finXX.me, fin.me  *)
(* and www.finX.me.                                                        *)
(***************************************************************************)
QuestionMasks ==
  \A ij \in RunSteps :
    /\ Len(SegMask(SegOf(ij))) = Len(RunOf(ij))
    /\ \A k \in 1..Len(RunOf(ij)) :
         /\ (RunOf(ij)[k].is_char /\ RunOf(ij)[k].b = Ord["?"])
              => SegMask(SegOf(ij))[k] = 255
         /\ ~RunOf(ij)[k].is_char => SegMask(SegOf(ij))[k] = 0

FinAccepted ==
  {<<"f", "i", "n", "t", ".", "m", "e">>, <<"f", "i", "n", "T", ".", "m", "e">>,
   <<"f", "i", "n", "X", ".", "m", "e">>}

FinRejected ==
  {<<"f", "i", "n", "X", "X", ".", "m", "e">>, <<"f", "i", "n", ".", "m", "e">>,
   <<"w", "w", "w", ".", "f", "i", "n", "X", ".", "m", "e">>}

THM_C3 ==
  /\ Compiled => QuestionMasks
  /\ (Done /\ ~negate /\ NPatterns = 1 /\ ~HasStar(args[1])) =>
       (vm.verdict = 1 <=> NameMatches(args[1], query, ignorecase))
  /\ (Done /\ ~negate /\ args = <<FinQMe>>) =>
       /\ (\E n \in FinAccepted, t \in Tails : query = WireOf(n) \o t)
            => vm.verdict = 1
       /\ (\E n \in FinRejected, t \in Tails : query = WireOf(n) \o t)
            => vm.verdict = 0

WIT_C3 ==
  /\ Done /\ ~negate /\ ignorecase /\ args = <<FinQMe>>
  /\ query = WireOf(<<"f", "i", "n", "X", ".", "m", "e">>) \o <<0, 1, 0, 1>>
  /\ vm.status = "ret" /\ vm.verdict = 1

(***************************************************************************)
(* C4.  For the same patterns, options and packet the filter compiled      *)
(* with negate returns 1 exactly when the filter compiled without negate   *)
(* returns 0, and every run ends in one of the two return instructions.    *)
(***************************************************************************)
CEX_C4 ==
  Done =>
    /\ vm.status = "ret"
    /\ vm.verdict = 1 <=>
         Result(Listing(list_of_rules, ignorecase, ~negate, ipversion), packet) = 0

(***************************************************************************)
(* C7.  Each label lb_0 .. lb_n is declared exactly once, every jump       *)
(* names one of them, the declaration comes after the jump, and every      *)
(* step of a run moves the program counter forward or ends the run.        *)
(***************************************************************************)
LabelsDeclaredOnce ==
  /\ \A lb \in 0..NPatterns :
       Cardinality({i \in 1..Len(listing) :
                      listing[i].op = "label" /\ listing[i].lb = lb}) = 1
  /\ \A i \in 1..Len(listing) :
       listing[i].op = "label" => listing[i].lb \in 0..NPatterns

JumpsForward ==
  \A i \in 1..Len(listing) :
    listing[i].op = "jneq" =>
      /\ listing[i].lb \in 0..NPatterns
      /\ \E j \in (i + 1)..Len(listing) :
           listing[j].op = "label" /\ listing[j].lb = listing[i].lb

StepForward ==
  (phase = "run" /\ phase' = "run") =>
     \/ vm'.pc > vm.pc /\ vm'.pc <= Len(listing)
     \/ vm'.pc = vm.pc /\ vm'.status # "run"

THM_C7 ==
  /\ [](Compiled => (LabelsDeclaredOnce /\ JumpsForward))
  /\ [][StepForward]_vars

WIT_C7 ==
  /\ Done /\ NPatterns > 1 /\ ~negate
  /\ vm.status = "ret" /\ vm.verdict = 0

(***************************************************************************)
(* C8.  One pattern: no active store to and no active reload from M[0].    *)
(* More patterns: one store, after the start offset is computed and        *)
(* before the first block, and one reload at the head of each block        *)
(* 1..n-1, none in block 0.  On entry to the first step of every block     *)
(* the cursor register holds the start-of-query offset.                    *)
(***************************************************************************)
LinesWith(op) == {i \in 1..Len(listing) : listing[i].op = op}

\* the first instruction of the steps of block i
BlockEntry(i) == NextIns(listing, LabelPos(listing, i) + 1)

StoreAndReloads ==
  /\ Cardinality(LinesWith("st")) = (IF NPatterns > 1 THEN 1 ELSE 0)
  /\ Cardinality(LinesWith("ldxm")) = NPatterns - 1
  /\ \A i \in LinesWith("st") :
       /\ i < LabelPos(listing, 0)
       /\ \E j \in 1..(i - 1) :
            /\ listing[j].op = "tax"
            /\ \A h \in (j + 1)..(i - 1) : ~IsIns(listing[h])
  /\ listing[LabelPos(listing, 0) + 1].op # "ldxm"
  /\ \A b \in 1..(NPatterns - 1) : listing[LabelPos(listing, b) + 1].op = "ldxm"

THM_C8 ==
  /\ Compiled => StoreAndReloads
  /\ Running =>
       \A b \in 0..(NPatterns - 1) : vm.pc = BlockEntry(b) => vm.X = QueryOff

WIT_C8 ==
  /\ Running /\ NPatterns > 1
  /\ vm.pc = BlockEntry(1)
  /\ vm.X = QueryOff

(***************************************************************************)
(* C9.  With ignore-case every character byte other than "?" has mask      *)
(* 0x20, alphabetic or not, and every length byte has mask 0x00; without   *)
(* ignore-case and without "?" the mask is zero and the compared value is  *)
(* the exact wire bytes.  The compared value is (expected OR mask), and a  *)
(* chunk passes exactly when the packet bytes agree with it on every bit   *)
(* outside the mask.                                                       *)
(***************************************************************************)
CaseMasks ==
  \A ij \in RunSteps :
    LET run == RunOf(ij)
        seg == SegOf(ij)
    IN  /\ Len(SegMask(seg)) = Len(run)
        /\ Len(SegValue(seg)) = Len(run)
        /\ \A k \in 1..Len(run) :
             /\ SegValue(seg)[k] = BitOr(run[k].b, SegMask(seg)[k])
             /\ ~run[k].is_char => SegMask(seg)[k] = 0
             /\ (ignorecase /\ run[k].is_char /\ run[k].b # Ord["?"])
                  => SegMask(seg)[k] = 32
             /\ (~ignorecase /\ run[k].b # Ord["?"]) => SegMask(seg)[k] = 0
        /\ (~ignorecase /\ \A k \in 1..Len(run) : run[k].b # Ord["?"])
             => SegValue(seg) = Bytes(run)

\* the load and the mask of the comparison whose jneq is at line i
LoadLineOf(i) == IF listing[i - 1].op = "or" THEN listing[i - 2] ELSE listing[i - 1]

MaskOf(i) == IF listing[i - 1].op = "or" THEN listing[i - 1].v ELSE ZeroWord

AgreeOutside(w1, w2, mask) ==
  \A t \in 1..4 : BitAnd(w1[t], 255 - mask[t]) = BitAnd(w2[t], 255 - mask[t])

AtJneq == Running /\ listing[vm.pc].op = "jneq"

ChunkPasses == VMStep(listing, packet, vm).pc = NextIns(listing, vm.pc)

THM_C9 ==
  /\ Compiled => CaseMasks
  /\ AtJneq =>
       (ChunkPasses <=>
          AgreeOutside(LoadWord(packet, vm.X + LoadLineOf(vm.pc).k,
                                LoadLineOf(vm.pc).w),
                       listing[vm.pc].v, MaskOf(vm.pc)))

WIT_C9 ==
  /\ AtJneq /\ ignorecase /\ ChunkPasses
  /\ MaskOf(vm.pc) # ZeroWord
  /\ LoadWord(packet, vm.X + LoadLineOf(vm.pc).k, LoadLineOf(vm.pc).w)
       # listing[vm.pc].v

(***************************************************************************)
(* C5.  Tokenizing a string yields the labels of the string with its       *)
(* surrounding whitespace removed first and its leading and trailing dots  *)
(* removed afterwards, and no leading or trailing dot survives             *)
(* normalization.                                                          *)
(***************************************************************************)
\* whitespace removed first, dots afterwards, then the final dot appended
NormalizeRef(domain) == Strip(Strip(domain, Whitespace), {"."}) \o <<".">>

\* the normalized string without the appended dot
Normalized(domain) == SubSeq(Normalize(domain), 1, Len(Normalize(domain)) - 1)

CEX_C5 ==
  phase # "args" =>
    \A i \in 1..NPatterns :
      /\ list_of_rules[i] = Merge(RuleOf(Split(NormalizeRef(args[i]))))
      /\ Normalized(args[i]) # <<>> =>
           /\ Head(Normalized(args[i])) # "."
           /\ Normalized(args[i])[Len(Normalized(args[i]))] # "."

(***************************************************************************)
(* C6.  The total cursor advance of the merged steps of a pattern (the     *)
(* length of each run, and length + 1 for each star label, whose length    *)
(* in the pattern is 1) equals the wire length of the normalized domain    *)
(* string: its characters other than dots, one length byte per label and   *)
(* one root byte.                                                          *)
(***************************************************************************)
RECURSIVE TotalAdvance(_)
TotalAdvance(rule) ==
  IF rule = <<>> THEN 0
  ELSE (IF Head(rule).star THEN 1 + 1 ELSE Len(Head(rule).run))
         + TotalAdvance(Tail(rule))

WireLen(s) ==
  Cardinality({i \in 1..Len(s) : s[i] # "."})
    + (Cardinality({i \in 1..Len(s) : s[i] = "."}) + 1)
    + 1

ExpectedMask(e) ==
  IF e.is_char /\ e.b = Ord["?"] THEN 255
  ELSE IF e.is_char /\ ignorecase THEN 32
  ELSE 0

ChunkLayout(run, cs) ==
  LET n == Len(run)
  IN  /\ cs # <<>>
      /\ \A c \in 1..Len(cs) : cs[c].w \in {4, 2, 1}
      /\ Cardinality({c \in 1..Len(cs) : cs[c].w = 4}) = n \div 4
      /\ Cardinality({c \in 1..Len(cs) : cs[c].w = 2}) <= 1
      /\ Cardinality({c \in 1..Len(cs) : cs[c].w = 1}) <= 1
      /\ \A c \in 1..(Len(cs) - 1) :
           /\ cs[c].w >= cs[c + 1].w
           /\ cs[c + 1].k = cs[c].k + cs[c].w
      /\ cs[1].k = 0
      /\ cs[Len(cs)].k + cs[Len(cs)].w = n

ChunkBytes(run, cs) ==
  \A c \in 1..Len(cs) :
    /\ \A t \in 1..(4 - cs[c].w) : cs[c].v[t] = 0 /\ cs[c].mm[t] = 0
    /\ \A t \in 1..cs[c].w :
         /\ cs[c].k + t <= Len(run)
         /\ cs[c].mm[4 - cs[c].w + t] = ExpectedMask(run[cs[c].k + t])
         /\ cs[c].v[4 - cs[c].w + t] =
              BitOr(run[cs[c].k + t].b, ExpectedMask(run[cs[c].k + t]))

AdvanceOnce(ij) ==
  LET tr == Trailer(SegOf(ij))
  IN  IF IsLastStep(ij) THEN tr = <<>>
      ELSE /\ Len(tr) = 3
           /\ tr[1].op = "txa"
           /\ tr[2].op = "add" /\ tr[2].k = Len(RunOf(ij))
           /\ tr[3].op = "tax"

THM_C10 ==
  Compiled =>
    /\ \A i \in 1..NPatterns : Len(Segments(listing, i - 1)) = Len(list_of_rules[i])
    /\ \A ij \in RunSteps :
         /\ ChunkLayout(RunOf(ij), Chunks(SegOf(ij), 1))
         /\ ChunkBytes(RunOf(ij), Chunks(SegOf(ij), 1))
         /\ AdvanceOnce(ij)

WIT_C10 ==
  /\ Compiled
  /\ \E ij \in RunSteps :
       /\ Len(RunOf(ij)) = 7
       /\ Len(Chunks(SegOf(ij), 1)) = 3
       /\ IsLastStep(ij)
       /\ Trailer(SegOf(ij)) = <<>>

=============================================================================
